---- MODULE Spec2Model ----
(***************************************************************************)
(* The intercepting reverse proxy of frontend-proxy/main.py.               *)
(*                                                                         *)
(* One behaviour follows one inbound HTTP request from the moment the web  *)
(* framework routes it until the caller has its response.  The request is  *)
(* fixed by Init; the event collector and the upstream origin are the      *)
(* environment and answer, fail or time out nondeterministically.          *)
(***************************************************************************)
EXTENDS Integers, Sequences, FiniteSets, TLC

VARIABLES
    request,       \* the inbound request as the client sent it
    pc,            \* position of the handler
    body,          \* the handler's local `body`
    bodyReads,     \* number of reads of the request body from the transport
    mcpCalls,      \* requests.post calls issued to the event collector
    mcpOutcome,    \* what became of the event-collector call
    forwardCalls,  \* requests.request calls issued to the upstream origin
    upstream,      \* what the forward call produced
    response,      \* what the caller receives
    escaped,       \* an exception left proxy_request
    hs,            \* concurrent handling: handler -> its request and locals
    VALID_PRODUCT_NAMES,  \* recommendation service: the synced product names
    syncResult,    \* how the startup sync's ListProducts call ended
    recPc,         \* recommendation service: startup, idle, or where a request is
    recRequest,    \* the /recommend request being handled
    llmCalls,      \* prompts given to model.generate_content for that request
    llmOutcome,    \* how that generate_content call ended
    searchCalls,   \* SearchProducts queries made for that request
    productDetails,\* what get_product_from_catalog returned for that request
    recResponse,   \* the answer to that request
    recServed,     \* number of /recommend requests received so far
    SESSIONS,      \* support agent: session_id -> its last_product_name
    asks,          \* support agent: thread -> the /ask it handles and its locals
    askServed,     \* number of /ask requests received so far
    askHistory,    \* session_id -> the product names identified for it, in order
    mcpPc,         \* event collector: idle, checking a payload, or responded
    mcpPayload,    \* the JSON document posted to /mcp
    mcpFrom,       \* who posted it: the proxy, or another client
    events,        \* the rows of the collector's events table
    mcpResponse,   \* the collector's answer to that post
    mcpPosts,      \* number of posts to /mcp received so far
    last_recommendation_cache,  \* recommendation agent: the module-level cache
    agentCalls,    \* recommendation agent: thread -> its ListRecommendations call
    latestReads    \* the values /latest_recommendation has returned, in order

\* the state of the recommendation HTTP service
recVars == << VALID_PRODUCT_NAMES, syncResult, recPc, recRequest, llmCalls, llmOutcome,
             searchCalls, productDetails, recResponse, recServed >>

\* the state of the recommendation agent (gRPC service and its cache)
agentVars == << last_recommendation_cache, agentCalls, latestReads >>

\* the state of the event collector
mcpVars == << mcpPc, mcpPayload, mcpFrom, events, mcpResponse, mcpPosts >>

\* the state of the customer-support agent
askVars == << SESSIONS, asks, askServed, askHistory >>

\* everything that is not the state of the recommendation HTTP service
notRec == << request, pc, body, bodyReads, mcpCalls, mcpOutcome,
             forwardCalls, upstream, response, escaped, hs, askVars, mcpVars, agentVars >>

\* the state of one request's handling
proxyVars == << request, pc, body, bodyReads, mcpCalls, mcpOutcome,
                forwardCalls, upstream, response, escaped >>

\* everything that is not the state of that one request's handling
notProxy == << hs, recVars, askVars, mcpVars, agentVars >>

\* everything that is not the state of the concurrent handlers
notPar == << proxyVars, recVars, askVars, mcpVars, agentVars >>

\* everything that is not the state of the customer-support agent
notAsk == << proxyVars, hs, recVars, mcpVars, agentVars >>

\* everything that is not the state of the event collector
notMcp == << proxyVars, hs, recVars, askVars, agentVars >>

\* everything that is not the state of the recommendation agent
notAgent == << proxyVars, hs, recVars, askVars, mcpVars >>

vars == << proxyVars, hs, recVars, askVars, mcpVars, agentVars >>

---------------------------------------------------------------------------
(* Bounds of the model *)

\* longest form body, in '&'-separated fields
MaxFields == 2

\* longest form body of the form-decoding specification, in fields
MaxFormFields == 3

\* number of requests handled concurrently
NumHandlers == 2

\* number of threads of the support agent's server that handle /ask at once
NumAskThreads == 2

\* number of /ask requests followed
MaxAsks == 3

\* number of ListRecommendations calls followed, each in a thread of its own
NumAgentCalls == 2

\* number of /latest_recommendation reads followed
MaxReads == 2

\* number of posts to the collector's /mcp followed
MaxPosts == 2

\* number of /recommend requests followed, one after the other
MaxRecRequests == 2

\* longest viewed_products list, and longest catalog
MaxNames == 2

---------------------------------------------------------------------------
(* Configuration: main.py lines 9-11 *)

REAL_FRONTEND_URL == "http://frontend-real:8080"

TOOLBOX_URL == "http://mcp-toolbox-service:8080"

\* Python's None; json= serialises it as null
None == "None"

\* the JSON document {}
EmptyObject == [k \in {} |-> "None"]

\* methods=[...] of the api_route decorator
RouteMethods == {"GET", "POST", "PUT", "DELETE"}

---------------------------------------------------------------------------
(* Inbound requests *)

Methods == RouteMethods \cup {"PATCH", "HEAD", "OPTIONS"}

\* a path is the sequence of its '/'-separated segments after the leading '/':
\* /cart is <<"cart">>, /cart/checkout is <<"cart", "checkout">>, /cart/ is
\* <<"cart", "">>
Paths == { <<"cart">>, <<"cart", "checkout">>, <<"cart", "">>, <<"product">> }

\* raw (still percent-encoded) form values; "" is a blank value
RawValues == {"", "1", "2", "a+b"}

FormKeys == {"product_id", "quantity"}

\* one '&'-separated field of the body: key=value when eq, else the bare key
Fields ==
    { [k |-> k, eq |-> TRUE, v |-> v] : k \in FormKeys, v \in RawValues }
        \cup { [k |-> k, eq |-> FALSE, v |-> ""] : k \in FormKeys }
        \cup { [k |-> "other", eq |-> TRUE, v |-> "1"] }

FieldSeqs == UNION { [1..n -> Fields] : n \in 0..MaxFields }

\* body bytes: the fields, and whether the bytes are valid UTF-8
Bodies ==
    { [utf8 |-> TRUE, fields |-> f] : f \in FieldSeqs }
        \cup { [utf8 |-> FALSE, fields |-> f] : f \in { g \in FieldSeqs : Len(g) <= 1 } }

CookieJars ==
    { [c \in {} |-> ""],
      [session_id |-> "U1"],
      [user_pref |-> "dark"],
      [session_id |-> "U2", user_pref |-> "dark"] }

\* header names are written as the client wrote them
HeaderSets ==
    { [Host |-> "shop.example", Authorization |-> "Bearer t"],
      [HOST |-> "shop.example"] }

\* the query string after '?', as the client wrote it; "" when there is none
Queries == {"", "id=1&ref=a"}

\* bodies of at most one field
ShortBodies == { b \in Bodies : Len(b.fields) <= 1 }

\* every request without a query string, and the requests with one that have
\* a short body
Requests ==
    [ method : Methods, path : Paths, query : {""}, headers : HeaderSets,
      cookies : CookieJars, body : Bodies ]
        \cup [ method : Methods, path : Paths, query : Queries \ {""},
               headers : HeaderSets, cookies : CookieJars, body : ShortBodies ]

---------------------------------------------------------------------------
(* What the web framework hands to the handler *)

\* the ASGI layer lower-cases header names before the handler sees them
Lower(name) ==
    CASE name \in {"Host", "HOST", "host"} -> "host"
      [] name \in {"Authorization", "authorization"} -> "authorization"
      [] name \in {"Content-Type", "content-type"} -> "content-type"
      [] name \in {"Content-Length", "content-length"} -> "content-length"
      [] name \in {"Content-Encoding", "content-encoding"} -> "content-encoding"
      [] name \in {"Transfer-Encoding", "transfer-encoding"} -> "transfer-encoding"
      [] name \in {"Location", "location"} -> "location"
      [] OTHER -> name

\* a header mapping with every name lower-cased
LowerNames(h) ==
    [ n \in { Lower(k) : k \in DOMAIN h } |->
        h[CHOOSE k \in DOMAIN h : Lower(k) = n] ]

\* request.headers.items()
RequestHeaders(req) == LowerNames(req.headers)

\* path == "cart"
CartPath == <<"cart">>

\* faulty variant: the cart route is matched as a prefix
Intercepts_Prefix(req) == req.method = "POST" /\ Head(req.path) = "cart"

\* request.method == "POST" and path == "cart"
Intercepts(req) == req.method = "POST" /\ req.path = CartPath

---------------------------------------------------------------------------
(* Form decoding: parse_qs(body.decode()) *)

\* body.decode() raises UnicodeDecodeError on bytes that are not UTF-8
DecodeRaises(b) == ~b.utf8

\* percent-decoding with '+' read as a space
Unquote(v) == IF v = "a+b" THEN "a b" ELSE v

\* the fields of body b written as k=..., blank values included
Written(b, k) == SelectSeq(b.fields, LAMBDA f : f.k = k /\ f.eq)

\* the fields of body b written as k=v with v not blank
Valued(b, k) == SelectSeq(b.fields, LAMBDA f : f.k = k /\ f.eq /\ f.v # "")

\* a field contributes a pair only if it has an '=' and a non-blank value
\* (strict_parsing and keep_blank_values are off)
KeptFields(b) == SelectSeq(b.fields, LAMBDA f : f.eq /\ f.v # "")

\* parse_qs: key -> the list of its values, in order of appearance
ParseQs(b) ==
    LET kept == KeptFields(b)
        keys == { kept[i].k : i \in 1..Len(kept) }
        ValuesOf(k) ==
            LET mine == SelectSeq(kept, LAMBDA f : f.k = k)
            IN  [ i \in 1..Len(mine) |-> Unquote(mine[i].v) ]
    IN  [ k \in keys |-> ValuesOf(k) ]

\* faulty variant: the last value of the key's list is taken
FirstValue_Last(form, key) ==
    IF key \in DOMAIN form THEN form[key][Len(form[key])] ELSE None

\* form_data.get(key, [None])[0]
FirstValue(form, key) ==
    IF key \in DOMAIN form THEN form[key][1] ELSE None

\* faulty variant: the cookie lookup has no default
UserId_NoDefault(req) ==
    IF "session_id" \in DOMAIN req.cookies
    THEN req.cookies["session_id"]
    ELSE None

\* request.cookies.get("session_id", "unknown_user")
UserId(req) ==
    IF "session_id" \in DOMAIN req.cookies
    THEN req.cookies["session_id"]
    ELSE "unknown_user"

\* `if product_id:`  (None and "" are falsy)
Truthy(v) == v # None /\ v # ""

\* faulty variant: the quantity is looked up under a key the form never has
Event_NoQuantity(req, b) ==
    LET form == ParseQs(b)
    IN  [ topic |-> "user-activity",
          event |-> "item_added_to_cart",
          data  |-> [ user_id    |-> UserId(req),
                      product_id |-> FirstValue(form, "product_id"),
                      quantity   |-> FirstValue(form, "qty") ] ]

\* the JSON document published for an intercepted request
Event(req, b) ==
    LET form == ParseQs(b)
    IN  [ topic |-> "user-activity",
          event |-> "item_added_to_cart",
          data  |-> [ user_id    |-> UserId(req),
                      product_id |-> FirstValue(form, "product_id"),
                      quantity   |-> FirstValue(form, "quantity") ] ]

\* requests.post(f"{TOOLBOX_URL}/mcp", json=event, timeout=1)
McpCall(req, b) ==
    [ url     |-> [base |-> TOOLBOX_URL, path |-> <<"mcp">>],
      json    |-> Event(req, b),
      timeout |-> 1 ]

---------------------------------------------------------------------------
(* The forward: requests.request(...) *)

\* f"{REAL_FRONTEND_URL}/{path}": the route's path parameter holds the path
\* alone, so the URL has no query component
TargetUrl(req) == [base |-> REAL_FRONTEND_URL, path |-> req.path]

\* faulty variant: the names are compared as the client wrote them
ForwardHeaders_CaseSensitive(req) ==
    [ k \in (DOMAIN req.headers) \ {"host"} |-> req.headers[k] ]

\* {key: value for (key, value) in request.headers.items() if key != 'host'}
ForwardHeaders(req) ==
    LET h == RequestHeaders(req)
    IN  [ k \in (DOMAIN h) \ {"host"} |-> h[k] ]

\* faulty variant: the cookies are not passed on
ForwardRequest_NoCookies(req, b) ==
    [ method          |-> req.method,
      url             |-> TargetUrl(req),
      headers         |-> ForwardHeaders(req),
      data            |-> b,
      cookies         |-> [c \in {} |-> ""],
      allow_redirects |-> FALSE ]

\* requests.request(method=..., url=..., headers=..., data=..., cookies=...,
\*                  allow_redirects=False)
ForwardRequest(req, b) ==
    [ method          |-> req.method,
      url             |-> TargetUrl(req),
      headers         |-> ForwardHeaders(req),
      data            |-> b,
      cookies         |-> req.cookies,
      allow_redirects |-> FALSE ]

---------------------------------------------------------------------------
(* The upstream origin's replies and their relay *)

\* body bytes on the wire; a gzip stream wraps its payload
PlainBody == <<"o", "k">>

Gzip(bytes) == <<"gz">> \o bytes \o <<"crc">>

Gunzip(bytes) == SubSeq(bytes, 2, Len(bytes) - 1)

\* what the upstream origin may answer: status line, headers, body bytes
UpstreamReplies ==
    { [ status  |-> st,
        headers |-> ("Content-Type" :> "text/html")
                        @@ ("Content-Length" :> Len(PlainBody)),
        body    |-> PlainBody ] : st \in {200, 404, 503} }
    \cup
    { [ status  |-> 200,
        headers |-> ("Content-Type" :> "text/html")
                        @@ ("Content-Encoding" :> "gzip")
                        @@ ("Content-Length" :> Len(Gzip(PlainBody))),
        body    |-> Gzip(PlainBody) ],
      [ status  |-> 200,
        headers |-> ("Content-Type" :> "text/html")
                        @@ ("Transfer-Encoding" :> "chunked"),
        body    |-> PlainBody ],
      [ status  |-> 302,
        headers |-> ("Location" :> "http://example.com/redirect")
                        @@ ("Content-Length" :> 0),
        body    |-> <<>> ] }

\* resp.content: requests decodes the body according to Content-Encoding
Content(reply) ==
    IF "Content-Encoding" \in DOMAIN reply.headers
           /\ reply.headers["Content-Encoding"] = "gzip"
    THEN Gunzip(reply.body)
    ELSE reply.body

\* Response(content=..., status_code=..., headers=...): header names are
\* lower-cased and a content-length is supplied when the mapping has none
StarletteResponse(content, status_code, headers) ==
    LET raw == LowerNames(headers)
        populate == "content-length" \notin DOMAIN raw
                        /\ ~(status_code < 200 \/ status_code \in {204, 304})
    IN  [ kind    |-> "response",
          status  |-> status_code,
          headers |-> IF populate
                      THEN raw @@ ("content-length" :> Len(content))
                      ELSE raw,
          body    |-> content ]

\* Response(content=resp.content, status_code=resp.status_code,
\*          headers=dict(resp.headers))
Relay(reply) ==
    StarletteResponse(Content(reply), reply.status, reply.headers)

\* the framework's own answer to a method the route does not list
MethodNotAllowed ==
    [ kind    |-> "response",
      status  |-> 405,
      headers |-> ("allow" :> "GET, POST, PUT, DELETE")
                      @@ ("content-type" :> "application/json")
                      @@ ("content-length" :> 1),
      body    |-> <<"Method Not Allowed">> ]

\* the framework's answer when an exception leaves the handler
InternalServerError ==
    [ kind    |-> "response",
      status  |-> 500,
      headers |-> ("content-type" :> "text/plain; charset=utf-8")
                      @@ ("content-length" :> 1),
      body    |-> <<"Internal Server Error">> ]

NoResponse == [kind |-> "none"]

NotCalled == [kind |-> "none"]

\* failures of a requests call
RequestErrors == {"Timeout", "ConnectionError"}

\* statuses the event collector answers with
CollectorStatuses == {200, 400, 500}

---------------------------------------------------------------------------
(* The state machine *)

\* no concurrent handlers are being followed
ParIdle == hs = <<>>

\* the recommendation service is not being followed
RecIdle ==
    /\ VALID_PRODUCT_NAMES = <<>>
    /\ syncResult = [kind |-> "none"]
    /\ recPc = "off"
    /\ recRequest = None
    /\ llmCalls = <<>>
    /\ llmOutcome = "none"
    /\ searchCalls = <<>>
    /\ productDetails = [kind |-> "none"]
    /\ recResponse = [kind |-> "none"]
    /\ recServed = 0

\* the recommendation agent is not being followed
AgentIdle ==
    /\ last_recommendation_cache = [kind |-> "none"]
    /\ agentCalls = <<>>
    /\ latestReads = <<>>

\* the event collector is not being followed
McpIdle ==
    /\ mcpPc = "off"
    /\ mcpPayload = EmptyObject
    /\ mcpFrom = "none"
    /\ events = <<>>
    /\ mcpResponse = [kind |-> "none"]
    /\ mcpPosts = 0

\* the customer-support agent is not being followed
AskIdle ==
    /\ SESSIONS = <<>>
    /\ asks = <<>>
    /\ askServed = 0
    /\ askHistory = <<>>

Init ==
    /\ ParIdle
    /\ RecIdle
    /\ AskIdle
    /\ McpIdle
    /\ AgentIdle
    /\ request \in Requests
    /\ pc = "route"
    /\ body = None
    /\ bodyReads = 0
    /\ mcpCalls = <<>>
    /\ mcpOutcome = NotCalled
    /\ forwardCalls = <<>>
    /\ upstream = NotCalled
    /\ response = NoResponse
    /\ escaped = FALSE

\* the route matches every path and the listed methods: the handler is entered
Route ==
    /\ pc = "route"
    /\ request.method \in RouteMethods
    /\ pc' = "read"
    /\ UNCHANGED << request, body, bodyReads, mcpCalls, mcpOutcome,
                    forwardCalls, upstream, response, escaped >>
    /\ UNCHANGED notProxy

\* any other method is answered by the framework; the handler never runs
RejectMethod ==
    /\ pc = "route"
    /\ request.method \notin RouteMethods
    /\ response' = MethodNotAllowed
    /\ pc' = "done"
    /\ UNCHANGED << request, body, bodyReads, mcpCalls, mcpOutcome,
                    forwardCalls, upstream, escaped >>
    /\ UNCHANGED notProxy

\* body = await request.body(); then the interception test
ReadBody ==
    /\ pc = "read"
    /\ body' = request.body
    /\ bodyReads' = bodyReads + 1
    /\ pc' = IF Intercepts(request) THEN "intercept" ELSE "forward"
    /\ UNCHANGED << request, mcpCalls, mcpOutcome, forwardCalls, upstream,
                    response, escaped >>
    /\ UNCHANGED notProxy

\* faulty variant: the decode happens outside the try and its exception
\* leaves the handler
InterceptDecodeError_Uncaught ==
    /\ pc = "intercept"
    /\ DecodeRaises(body)
    /\ escaped' = TRUE
    /\ response' = InternalServerError
    /\ pc' = "done"
    /\ UNCHANGED << request, body, bodyReads, mcpCalls, mcpOutcome,
                    forwardCalls, upstream >>
    /\ UNCHANGED notProxy

\* body.decode() raises inside the try: logged, nothing published
InterceptDecodeError ==
    /\ pc = "intercept"
    /\ DecodeRaises(body)
    /\ pc' = "forward"
    /\ UNCHANGED << request, body, bodyReads, mcpCalls, mcpOutcome,
                    forwardCalls, upstream, response, escaped >>
    /\ UNCHANGED notProxy

\* faulty variant: a form without product_id is answered by the proxy itself
InterceptSkip_Reject ==
    /\ pc = "intercept"
    /\ ~DecodeRaises(body)
    /\ ~Truthy(Event(request, body).data.product_id)
    /\ response' = StarletteResponse(<<"missing product_id">>, 400, [h \in {} |-> ""])
    /\ pc' = "done"
    /\ UNCHANGED << request, body, bodyReads, mcpCalls, mcpOutcome,
                    forwardCalls, upstream, escaped >>
    /\ UNCHANGED notProxy

\* faulty variant: the event is published whenever the body writes a
\* product_id key, whatever its value
InterceptSkip_KeyPresent ==
    /\ pc = "intercept"
    /\ ~DecodeRaises(body)
    /\ ~Truthy(Event(request, body).data.product_id)
    /\ IF Written(body, "product_id") # <<>>
       THEN /\ mcpCalls' = Append(mcpCalls, McpCall(request, body))
            /\ pc' = "publish"
       ELSE /\ mcpCalls' = mcpCalls
            /\ pc' = "forward"
    /\ UNCHANGED << request, body, bodyReads, mcpOutcome,
                    forwardCalls, upstream, response, escaped >>
    /\ UNCHANGED notProxy

\* the form has no usable product_id: nothing published
InterceptSkip ==
    /\ pc = "intercept"
    /\ ~DecodeRaises(body)
    /\ ~Truthy(Event(request, body).data.product_id)
    /\ pc' = "forward"
    /\ UNCHANGED << request, body, bodyReads, mcpCalls, mcpOutcome,
                    forwardCalls, upstream, response, escaped >>
    /\ UNCHANGED notProxy

\* faulty variant: the event is handed to a background task and the handler
\* goes on to the forward at once
InterceptPublish_Detached ==
    /\ pc = "intercept"
    /\ ~DecodeRaises(body)
    /\ Truthy(Event(request, body).data.product_id)
    /\ mcpCalls' = Append(mcpCalls, McpCall(request, body))
    /\ forwardCalls' = Append(forwardCalls, ForwardRequest(request, body))
    /\ pc' = "forwarding"
    /\ UNCHANGED << request, body, bodyReads, mcpOutcome,
                    upstream, response, escaped >>
    /\ UNCHANGED notProxy

\* the event is built and requests.post is called; the handler blocks in it
InterceptPublish ==
    /\ pc = "intercept"
    /\ ~DecodeRaises(body)
    /\ Truthy(Event(request, body).data.product_id)
    /\ mcpCalls' = Append(mcpCalls, McpCall(request, body))
    /\ pc' = "publish"
    /\ UNCHANGED << request, body, bodyReads, mcpOutcome, forwardCalls,
                    upstream, response, escaped >>
    /\ UNCHANGED notProxy

\* faulty variant: the handler returns once the event is published
CollectorReplies_ReturnEarly ==
    /\ pc = "publish"
    /\ \E st \in CollectorStatuses :
          /\ mcpOutcome' = [kind |-> "reply", status |-> st]
          /\ response' = StarletteResponse(<<>>, st, [h \in {} |-> ""])
    /\ pc' = "done"
    /\ UNCHANGED << request, body, bodyReads, mcpCalls, forwardCalls,
                    upstream, escaped >>
    /\ UNCHANGED notProxy

\* requests.post returns a reply of any status: none is inspected
CollectorReplies ==
    /\ pc = "publish"
    /\ \E st \in CollectorStatuses :
          mcpOutcome' = [kind |-> "reply", status |-> st]
    /\ pc' = "forward"
    /\ UNCHANGED << request, body, bodyReads, mcpCalls, forwardCalls,
                    upstream, response, escaped >>
    /\ UNCHANGED notProxy

\* faulty variant: the publish happens outside the try and its exception
\* leaves the handler
CollectorFails_Uncaught ==
    /\ pc = "publish"
    /\ \E e \in RequestErrors :
          mcpOutcome' = [kind |-> "error", error |-> e]
    /\ escaped' = TRUE
    /\ response' = InternalServerError
    /\ pc' = "done"
    /\ UNCHANGED << request, body, bodyReads, mcpCalls, forwardCalls,
                    upstream >>
    /\ UNCHANGED notProxy

\* faulty variant: a failed publish is attempted once more
CollectorFails_Retry ==
    /\ pc = "publish"
    /\ \E e \in RequestErrors :
          mcpOutcome' = [kind |-> "error", error |-> e]
    /\ IF Len(mcpCalls) < 2
       THEN /\ mcpCalls' = Append(mcpCalls, McpCall(request, body))
            /\ pc' = "publish"
       ELSE /\ mcpCalls' = mcpCalls
            /\ pc' = "forward"
    /\ UNCHANGED << request, body, bodyReads, forwardCalls, upstream,
                    response, escaped >>
    /\ UNCHANGED notProxy

\* requests.post raises: caught by `except Exception`, logged
CollectorFails ==
    /\ pc = "publish"
    /\ \E e \in RequestErrors :
          mcpOutcome' = [kind |-> "error", error |-> e]
    /\ pc' = "forward"
    /\ UNCHANGED << request, body, bodyReads, mcpCalls, forwardCalls,
                    upstream, response, escaped >>
    /\ UNCHANGED notProxy

\* faulty variant: the forward reads the body from the transport again
Forward_Rereads ==
    /\ pc = "forward"
    /\ bodyReads' = bodyReads + 1
    /\ forwardCalls' = Append(forwardCalls, ForwardRequest(request, request.body))
    /\ pc' = "forwarding"
    /\ UNCHANGED << request, body, mcpCalls, mcpOutcome,
                    upstream, response, escaped >>
    /\ UNCHANGED notProxy

\* requests.request(...) is called; the handler blocks in it
Forward ==
    /\ pc = "forward"
    /\ forwardCalls' = Append(forwardCalls, ForwardRequest(request, body))
    /\ pc' = "forwarding"
    /\ UNCHANGED << request, body, bodyReads, mcpCalls, mcpOutcome,
                    upstream, response, escaped >>
    /\ UNCHANGED notProxy

\* faulty variant: a redirect is followed by the proxy itself
UpstreamAnswers_FollowsRedirect ==
    /\ pc = "forwarding"
    /\ \E r \in UpstreamReplies :
          /\ upstream' = [kind |-> "reply", reply |-> r]
          /\ IF r.status \in 300..399 /\ "Location" \in DOMAIN r.headers
             THEN /\ forwardCalls' =
                        Append(forwardCalls,
                               [ForwardRequest(request, body) EXCEPT
                                    !.url = r.headers["Location"]])
                  /\ response' = StarletteResponse(PlainBody, 200, [h \in {} |-> ""])
             ELSE /\ forwardCalls' = forwardCalls
                  /\ response' = Relay(r)
    /\ pc' = "done"
    /\ UNCHANGED << request, body, bodyReads, mcpCalls, mcpOutcome, escaped >>
    /\ UNCHANGED notProxy

\* the upstream answers: its reply is relayed to the caller
UpstreamAnswers ==
    /\ pc = "forwarding"
    /\ \E r \in UpstreamReplies :
          /\ upstream' = [kind |-> "reply", reply |-> r]
          /\ response' = Relay(r)
    /\ pc' = "done"
    /\ UNCHANGED << request, body, bodyReads, mcpCalls, mcpOutcome,
                    forwardCalls, escaped >>
    /\ UNCHANGED notProxy

\* requests.request raises outside any try: the exception leaves the handler
\* and the framework answers for it
UpstreamFails ==
    /\ pc = "forwarding"
    /\ \E e \in RequestErrors :
          upstream' = [kind |-> "error", error |-> e]
    /\ escaped' = TRUE
    /\ response' = InternalServerError
    /\ pc' = "done"
    /\ UNCHANGED << request, body, bodyReads, mcpCalls, mcpOutcome,
                    forwardCalls >>
    /\ UNCHANGED notProxy

Next ==
    \/ Route
    \/ RejectMethod
    \/ ReadBody
    \/ InterceptDecodeError
    \/ InterceptSkip
    \/ InterceptPublish
    \/ CollectorReplies
    \/ CollectorFails
    \/ Forward
    \/ UpstreamAnswers
    \/ UpstreamFails

Spec == Init /\ [][Next]_vars

---------------------------------------------------------------------------
(* The same handler on cart submissions with longer form bodies, where a   *)
(* key can repeat next to the other key.                                   *)

FormBodies ==
    { [utf8 |-> TRUE, fields |-> f] :
        f \in UNION { [1..n -> Fields] : n \in 0..MaxFormFields } }
        \cup { [utf8 |-> FALSE, fields |-> <<>>] }

FormRequests ==
    [ method : {"POST", "PATCH"}, path : {CartPath}, query : {""},
      headers : {[HOST |-> "shop.example"]},
      cookies : {[session_id |-> "U1"]}, body : FormBodies ]

FormInit ==
    /\ ParIdle
    /\ RecIdle
    /\ AskIdle
    /\ McpIdle
    /\ AgentIdle
    /\ request \in FormRequests
    /\ pc = "route"
    /\ body = None
    /\ bodyReads = 0
    /\ mcpCalls = <<>>
    /\ mcpOutcome = NotCalled
    /\ forwardCalls = <<>>
    /\ upstream = NotCalled
    /\ response = NoResponse
    /\ escaped = FALSE

SpecForm == FormInit /\ [][Next]_vars

---------------------------------------------------------------------------
(* Several requests handled concurrently.  Every name the handler uses is a  *)
(* local of its invocation; the module-level names are never assigned.  Each *)
(* handler's steps interleave freely with the others'.                       *)

Handlers == 1..NumHandlers

\* the single-request variables are not in use
ProxyIdle ==
    /\ request = None
    /\ pc = "idle"
    /\ body = None
    /\ bodyReads = 0
    /\ mcpCalls = <<>>
    /\ mcpOutcome = NotCalled
    /\ forwardCalls = <<>>
    /\ upstream = NotCalled
    /\ response = NoResponse
    /\ escaped = FALSE

\* the requests in flight are drawn from these
ParRequests ==
    { r \in Requests :
        /\ r.headers = [HOST |-> "shop.example"]
        /\ r.query = ""
        /\ \/ /\ r.method = "POST" /\ r.path = <<"cart">>
              /\ r.cookies = [session_id |-> "U1"]
              /\ r.body = [utf8 |-> TRUE,
                           fields |-> << [k |-> "product_id", eq |-> TRUE, v |-> "1"],
                                         [k |-> "quantity", eq |-> TRUE, v |-> "2"] >>]
           \/ /\ r.method = "POST" /\ r.path = <<"cart">>
              /\ r.cookies = [session_id |-> "U2", user_pref |-> "dark"]
              /\ r.body = [utf8 |-> TRUE,
                           fields |-> << [k |-> "product_id", eq |-> TRUE, v |-> "2"] >>]
           \/ /\ r.method = "POST" /\ r.path = <<"cart">>
              /\ r.cookies = [c \in {} |-> ""]
              /\ r.body = [utf8 |-> FALSE, fields |-> <<>>]
           \/ /\ r.method = "POST" /\ r.path = <<"cart">>
              /\ r.cookies = [user_pref |-> "dark"]
              /\ r.body = [utf8 |-> TRUE,
                           fields |-> << [k |-> "quantity", eq |-> TRUE, v |-> "1"] >>]
           \/ /\ r.method = "GET" /\ r.path = <<"product">>
              /\ r.cookies = [session_id |-> "U1"]
              /\ r.body = [utf8 |-> TRUE, fields |-> <<>>]
           \/ /\ r.method = "PATCH" /\ r.path = <<"product">>
              /\ r.cookies = [session_id |-> "U2", user_pref |-> "dark"]
              /\ r.body = [utf8 |-> TRUE,
                           fields |-> << [k |-> "other", eq |-> TRUE, v |-> "1"] >>] }

\* the upstream's answers to them
ParReplies == { r \in UpstreamReplies : r.status # 200 }

\* a handler's request and locals when the framework receives the request
NewHandler(req) ==
    [ request      |-> req,
      pc           |-> "route",
      body         |-> None,
      mcpCalls     |-> <<>>,
      mcpOutcome   |-> NotCalled,
      forwardCalls |-> <<>>,
      upstream     |-> NotCalled,
      response     |-> NoResponse,
      escaped      |-> FALSE ]

ParInit ==
    /\ ProxyIdle
    /\ RecIdle
    /\ AskIdle
    /\ McpIdle
    /\ AgentIdle
    /\ hs \in [Handlers -> { NewHandler(r) : r \in ParRequests }]

ParRoute(i) ==
    /\ hs[i].pc = "route"
    /\ hs[i].request.method \in RouteMethods
    /\ hs' = [hs EXCEPT ![i].pc = "read"]
    /\ UNCHANGED notPar

ParRejectMethod(i) ==
    /\ hs[i].pc = "route"
    /\ hs[i].request.method \notin RouteMethods
    /\ hs' = [hs EXCEPT ![i].response = MethodNotAllowed, ![i].pc = "done"]
    /\ UNCHANGED notPar

\* faulty variant: the body is kept in a module-level name shared by all
\* handlers
ParReadBody_Shared(i) ==
    /\ hs[i].pc = "read"
    /\ hs' = [ j \in Handlers |->
                 IF j = i
                 THEN [hs[j] EXCEPT
                          !.body = hs[i].request.body,
                          !.pc = IF Intercepts(hs[i].request)
                                 THEN "intercept" ELSE "forward"]
                 ELSE [hs[j] EXCEPT !.body = hs[i].request.body] ]
    /\ UNCHANGED notPar

ParReadBody(i) ==
    /\ hs[i].pc = "read"
    /\ hs' = [hs EXCEPT
                ![i].body = hs[i].request.body,
                ![i].pc = IF Intercepts(hs[i].request)
                          THEN "intercept" ELSE "forward"]
    /\ UNCHANGED notPar

ParInterceptDecodeError(i) ==
    /\ hs[i].pc = "intercept"
    /\ DecodeRaises(hs[i].body)
    /\ hs' = [hs EXCEPT ![i].pc = "forward"]
    /\ UNCHANGED notPar

ParInterceptSkip(i) ==
    /\ hs[i].pc = "intercept"
    /\ ~DecodeRaises(hs[i].body)
    /\ ~Truthy(Event(hs[i].request, hs[i].body).data.product_id)
    /\ hs' = [hs EXCEPT ![i].pc = "forward"]
    /\ UNCHANGED notPar

ParInterceptPublish(i) ==
    /\ hs[i].pc = "intercept"
    /\ ~DecodeRaises(hs[i].body)
    /\ Truthy(Event(hs[i].request, hs[i].body).data.product_id)
    /\ hs' = [hs EXCEPT
                ![i].mcpCalls = Append(@, McpCall(hs[i].request, hs[i].body)),
                ![i].pc = "publish"]
    /\ UNCHANGED notPar

ParCollectorReplies(i) ==
    /\ hs[i].pc = "publish"
    /\ \E st \in CollectorStatuses :
          hs' = [hs EXCEPT
                    ![i].mcpOutcome = [kind |-> "reply", status |-> st],
                    ![i].pc = "forward"]
    /\ UNCHANGED notPar

ParCollectorFails(i) ==
    /\ hs[i].pc = "publish"
    /\ \E e \in RequestErrors :
          hs' = [hs EXCEPT
                    ![i].mcpOutcome = [kind |-> "error", error |-> e],
                    ![i].pc = "forward"]
    /\ UNCHANGED notPar

ParForward(i) ==
    /\ hs[i].pc = "forward"
    /\ hs' = [hs EXCEPT
                ![i].forwardCalls =
                    Append(@, ForwardRequest(hs[i].request, hs[i].body)),
                ![i].pc = "forwarding"]
    /\ UNCHANGED notPar

ParUpstreamAnswers(i) ==
    /\ hs[i].pc = "forwarding"
    /\ \E r \in ParReplies :
          hs' = [hs EXCEPT
                    ![i].upstream = [kind |-> "reply", reply |-> r],
                    ![i].response = Relay(r),
                    ![i].pc = "done"]
    /\ UNCHANGED notPar

ParUpstreamFails(i) ==
    /\ hs[i].pc = "forwarding"
    /\ \E e \in RequestErrors :
          hs' = [hs EXCEPT
                    ![i].upstream = [kind |-> "error", error |-> e],
                    ![i].escaped = TRUE,
                    ![i].response = InternalServerError,
                    ![i].pc = "done"]
    /\ UNCHANGED notPar

ParNext ==
    \/ \E i \in Handlers : ParRoute(i)
    \/ \E i \in Handlers : ParRejectMethod(i)
    \/ \E i \in Handlers : ParReadBody(i)
    \/ \E i \in Handlers : ParInterceptDecodeError(i)
    \/ \E i \in Handlers : ParInterceptSkip(i)
    \/ \E i \in Handlers : ParInterceptPublish(i)
    \/ \E i \in Handlers : ParCollectorReplies(i)
    \/ \E i \in Handlers : ParCollectorFails(i)
    \/ \E i \in Handlers : ParForward(i)
    \/ \E i \in Handlers : ParUpstreamAnswers(i)
    \/ \E i \in Handlers : ParUpstreamFails(i)

SpecPar == ParInit /\ [][ParNext]_vars

---------------------------------------------------------------------------
(* The recommendation HTTP service of recommendation-agent/main.py: the    *)
(* startup catalog sync, then POST /recommend requests one after another.  *)
(* The catalog RPC service and the LLM are the environment.                *)

ProductNames == {"Mug", "Tank Top"}

NameLists == UNION { [1..n -> ProductNames] : n \in 0..MaxNames }

\* RecommendRequest bodies that pass validation
RecRequests == [ session_id : {"s1"}, viewed_products : NameLists ]

\* what response.text may hold; Strip removes the surrounding whitespace
LlmTexts == {"Mug", " Tank Top\n", "Unknown Product"}

Strip(text) == IF text = " Tank Top\n" THEN "Tank Top" ELSE text

\* raise HTTPException(status_code=..., detail=...)
HttpError(status_code, detail) ==
    [kind |-> "response", status |-> status_code, detail |-> detail]

\* the prompt: ", ".join of both lists inside the fixed text
Prompt(viewed, valid) == [interested |-> viewed, available |-> valid]

\* the dict built from the first search result
ProductDict(name) == [kind |-> "product", id |-> <<"id", name>>, name |-> name]

\* get_product_from_catalog's None
NoProduct == [kind |-> "none"]

\* the products of a ListProducts response
CatalogProducts == { [id |-> <<"id", n>>, name |-> n] : n \in ProductNames }

\* response.products: any products, in the order the catalog returns them
ProductLists == UNION { [1..n -> CatalogProducts] : n \in 0..MaxNames }

\* [p.name for p in response.products]
NamesOf(products) == [ i \in 1..Len(products) |-> products[i].name ]

\* what the sync's try block may raise
SyncErrors == {"RpcError", "Exception"}

RecInit ==
    /\ ProxyIdle
    /\ ParIdle
    /\ AskIdle
    /\ McpIdle
    /\ AgentIdle
    /\ VALID_PRODUCT_NAMES = <<>>
    /\ syncResult = [kind |-> "none"]
    /\ recPc = "startup"
    /\ recRequest = None
    /\ llmCalls = <<>>
    /\ llmOutcome = "none"
    /\ searchCalls = <<>>
    /\ productDetails = [kind |-> "none"]
    /\ recResponse = [kind |-> "none"]
    /\ recServed = 0

\* sync_product_catalog: ListProducts answers; the names are stored in order
SyncSucceeds ==
    /\ recPc = "startup"
    /\ \E products \in ProductLists :
          /\ syncResult' = [kind |-> "answered", products |-> products]
          /\ VALID_PRODUCT_NAMES' = NamesOf(products)
    /\ recPc' = "idle"
    /\ UNCHANGED << recRequest, llmCalls, searchCalls, productDetails,
                    recResponse, recServed >>
    /\ UNCHANGED llmOutcome
    /\ UNCHANGED notRec

\* faulty variant: only the catalog's own error type is caught; any other
\* exception leaves the startup hook and the application does not start
SyncFails_Uncaught ==
    /\ recPc = "startup"
    /\ \E e \in SyncErrors :
          /\ syncResult' = [kind |-> "raised", error |-> e]
          /\ recPc' = IF e = "RpcError" THEN "idle" ELSE "crashed"
    /\ UNCHANGED << VALID_PRODUCT_NAMES, recRequest, llmCalls, searchCalls,
                    productDetails, recResponse, recServed >>
    /\ UNCHANGED llmOutcome
    /\ UNCHANGED notRec

\* sync_product_catalog: the channel, the stub or the RPC raises; `except
\* Exception` logs it and the list is not assigned
SyncFails ==
    /\ recPc = "startup"
    /\ \E e \in SyncErrors :
          syncResult' = [kind |-> "raised", error |-> e]
    /\ recPc' = "idle"
    /\ UNCHANGED << VALID_PRODUCT_NAMES, recRequest, llmCalls, searchCalls,
                    productDetails, recResponse, recServed >>
    /\ UNCHANGED llmOutcome
    /\ UNCHANGED notRec

\* POST /recommend arrives with a valid body; get_recommendation is entered
RecReceive ==
    /\ recPc = "idle"
    /\ recServed < MaxRecRequests
    /\ recRequest' \in RecRequests
    /\ recServed' = recServed + 1
    /\ llmCalls' = <<>>
    /\ llmOutcome' = "none"
    /\ searchCalls' = <<>>
    /\ productDetails' = NoProduct
    /\ recResponse' = [kind |-> "none"]
    /\ recPc' = "handle"
    /\ UNCHANGED VALID_PRODUCT_NAMES
    /\ UNCHANGED syncResult
    /\ UNCHANGED notRec

\* if not request.viewed_products: 400
RecRejectEmpty ==
    /\ recPc = "handle"
    /\ recRequest.viewed_products = <<>>
    /\ recResponse' = HttpError(400, "Viewed products list cannot be empty.")
    /\ recPc' = "idle"
    /\ UNCHANGED << VALID_PRODUCT_NAMES, recRequest, llmCalls, searchCalls,
                    productDetails, recServed >>
    /\ UNCHANGED syncResult
    /\ UNCHANGED llmOutcome
    /\ UNCHANGED notRec

\* faulty variant: the catalog check comes first
RecRejectNoCatalog_First ==
    /\ recPc = "handle"
    /\ VALID_PRODUCT_NAMES = <<>>
    /\ recResponse' =
          HttpError(503, "Product catalog not available. Please try again later.")
    /\ recPc' = "idle"
    /\ UNCHANGED << VALID_PRODUCT_NAMES, recRequest, llmCalls, searchCalls,
                    productDetails, recServed >>
    /\ UNCHANGED syncResult
    /\ UNCHANGED llmOutcome
    /\ UNCHANGED notRec

\* faulty variant: a request that finds the list empty runs the sync again
RecRejectNoCatalog_Resync ==
    /\ recPc = "handle"
    /\ recRequest.viewed_products # <<>>
    /\ VALID_PRODUCT_NAMES = <<>>
    /\ \E products \in ProductLists :
          /\ syncResult' = [kind |-> "answered", products |-> products]
          /\ VALID_PRODUCT_NAMES' = NamesOf(products)
    /\ recResponse' =
          HttpError(503, "Product catalog not available. Please try again later.")
    /\ recPc' = "idle"
    /\ UNCHANGED << recRequest, llmCalls, searchCalls, productDetails, recServed >>
    /\ UNCHANGED llmOutcome
    /\ UNCHANGED notRec

\* if not VALID_PRODUCT_NAMES: 503
RecRejectNoCatalog ==
    /\ recPc = "handle"
    /\ recRequest.viewed_products # <<>>
    /\ VALID_PRODUCT_NAMES = <<>>
    /\ recResponse' =
          HttpError(503, "Product catalog not available. Please try again later.")
    /\ recPc' = "idle"
    /\ UNCHANGED << VALID_PRODUCT_NAMES, recRequest, llmCalls, searchCalls,
                    productDetails, recServed >>
    /\ UNCHANGED syncResult
    /\ UNCHANGED llmOutcome
    /\ UNCHANGED notRec

\* faulty variant: the LLM is asked without the catalog check
RecAskLlm_Unchecked ==
    /\ recPc = "handle"
    /\ recRequest.viewed_products # <<>>
    /\ llmCalls' = Append(llmCalls,
                          Prompt(recRequest.viewed_products, VALID_PRODUCT_NAMES))
    /\ recPc' = "llm"
    /\ UNCHANGED << VALID_PRODUCT_NAMES, recRequest, searchCalls,
                    productDetails, recResponse, recServed >>
    /\ UNCHANGED syncResult
    /\ UNCHANGED llmOutcome
    /\ UNCHANGED notRec

\* both checks passed: the prompt is built and model.generate_content called
RecAskLlm ==
    /\ recPc = "handle"
    /\ recRequest.viewed_products # <<>>
    /\ VALID_PRODUCT_NAMES # <<>>
    /\ llmCalls' = Append(llmCalls,
                          Prompt(recRequest.viewed_products, VALID_PRODUCT_NAMES))
    /\ recPc' = "llm"
    /\ UNCHANGED << VALID_PRODUCT_NAMES, recRequest, searchCalls,
                    productDetails, recResponse, recServed >>
    /\ UNCHANGED syncResult
    /\ UNCHANGED llmOutcome
    /\ UNCHANGED notRec

\* the LLM answers; get_product_from_catalog calls SearchProducts with the
\* stripped text
LlmAnswers ==
    /\ recPc = "llm"
    /\ \E text \in LlmTexts : searchCalls' = Append(searchCalls, Strip(text))
    /\ recPc' = "catalog"
    /\ UNCHANGED << VALID_PRODUCT_NAMES, recRequest, llmCalls, productDetails,
                    recResponse, recServed >>
    /\ UNCHANGED syncResult
    /\ llmOutcome' = "answered"
    /\ UNCHANGED notRec

\* faulty variant: a failed generation falls back to looking up the first
\* viewed product
LlmFails_Fallback ==
    /\ recPc = "llm"
    /\ searchCalls' = Append(searchCalls, recRequest.viewed_products[1])
    /\ recPc' = "catalog"
    /\ UNCHANGED << VALID_PRODUCT_NAMES, recRequest, llmCalls, productDetails,
                    recResponse, recServed >>
    /\ UNCHANGED syncResult
    /\ llmOutcome' = "raised"
    /\ UNCHANGED notRec

\* generate_content (or response.text) raises: the except answers 500
LlmFails ==
    /\ recPc = "llm"
    /\ recResponse' = HttpError(500, "Failed to get recommendation.")
    /\ recPc' = "idle"
    /\ UNCHANGED << VALID_PRODUCT_NAMES, recRequest, llmCalls, searchCalls,
                    productDetails, recServed >>
    /\ UNCHANGED syncResult
    /\ llmOutcome' = "raised"
    /\ UNCHANGED notRec

\* SearchProducts has results: the first becomes the 200 answer
CatalogFinds ==
    /\ recPc = "catalog"
    /\ \E name \in ProductNames :
          /\ productDetails' = ProductDict(name)
          /\ recResponse' = [ kind   |-> "response",
                              status |-> 200,
                              body   |-> [recommended_product |-> ProductDict(name)] ]
    /\ recPc' = "idle"
    /\ UNCHANGED << VALID_PRODUCT_NAMES, recRequest, llmCalls, searchCalls,
                    recServed >>
    /\ UNCHANGED syncResult
    /\ UNCHANGED llmOutcome
    /\ UNCHANGED notRec

\* SearchProducts has no result, or raises: get_product_from_catalog returns
\* None.  The HTTPException(404) raised for it is raised inside the try, is
\* an Exception, and is replaced by the except's 500.
CatalogFindsNothing ==
    /\ recPc = "catalog"
    /\ productDetails' = NoProduct
    /\ recResponse' = HttpError(500, "Failed to get recommendation.")
    /\ recPc' = "idle"
    /\ UNCHANGED << VALID_PRODUCT_NAMES, recRequest, llmCalls, searchCalls,
                    recServed >>
    /\ UNCHANGED syncResult
    /\ UNCHANGED llmOutcome
    /\ UNCHANGED notRec

RecNext ==
    \/ SyncSucceeds
    \/ SyncFails
    \/ RecReceive
    \/ RecRejectEmpty
    \/ RecRejectNoCatalog
    \/ RecAskLlm
    \/ LlmAnswers
    \/ LlmFails
    \/ CatalogFinds
    \/ CatalogFindsNothing

SpecRec == RecInit /\ [][RecNext]_vars

---------------------------------------------------------------------------
(* The customer-support agent of customer-support-agent/agent.py: POST     *)
(* /ask with the module-level SESSIONS map.  app.run serves each request   *)
(* in a thread of its own, so the handlers' statements interleave; the     *)
(* catalog service and the LLM are the environment.                        *)

AskThreads == 1..NumAskThreads

AskSessionIds == {"s1", "s2"}

\* the JSON bodies of /ask: a key may be missing (None) or empty
AskRequests ==
    [ question : {"How big is it?", None}, session_id : AskSessionIds \cup {None, ""} ]

\* what the identification prompt's response.text may hold
IdentifyTexts == {"Mug", " Tank Top\n", "None"}

\* jsonify({"answer": ...})
Answer(text) == [kind |-> "response", answer |-> text]

\* a thread of the server with no request; `seen` is history, not a local:
\* how many products had been identified for the request's session when the
\* request arrived
NoAsk ==
    [ pc          |-> "idle",
      request     |-> [question |-> None, session_id |-> None],
      identified  |-> None,
      target      |-> None,
      searchCalls |-> <<>>,
      answerCalls |-> <<>>,
      response    |-> [kind |-> "none"],
      seen        |-> 0 ]

\* `not question or not session_id`
AskInvalid(req) == ~Truthy(req.question) \/ ~Truthy(req.session_id)

AskInit ==
    /\ ProxyIdle
    /\ ParIdle
    /\ RecIdle
    /\ McpIdle
    /\ AgentIdle
    /\ SESSIONS = [sid \in AskSessionIds |-> "absent"]
    /\ asks = [i \in AskThreads |-> NoAsk]
    /\ askServed = 0
    /\ askHistory = [sid \in AskSessionIds |-> <<>>]

\* a request reaches ask_agent in a free thread
AskReceive(i) ==
    /\ asks[i].pc \in {"idle", "done"}
    /\ askServed < MaxAsks
    /\ \E req \in AskRequests :
          asks' = [asks EXCEPT
                     ![i] = [NoAsk EXCEPT
                               !.pc = "check",
                               !.request = req,
                               !.seen = IF req.session_id \in AskSessionIds
                                        THEN Len(askHistory[req.session_id])
                                        ELSE 0]]
    /\ askServed' = askServed + 1
    /\ UNCHANGED << SESSIONS, askHistory >>
    /\ UNCHANGED notAsk

\* question or session_id missing or empty: answered before SESSIONS is used
AskRejectInvalid(i) ==
    /\ asks[i].pc = "check"
    /\ AskInvalid(asks[i].request)
    /\ asks' = [asks EXCEPT
                  ![i].response = Answer(<<"Sorry, I received an invalid request.">>),
                  ![i].pc = "done"]
    /\ UNCHANGED << SESSIONS, askServed, askHistory >>
    /\ UNCHANGED notAsk

\* `if session_id not in SESSIONS:` is evaluated
AskCheckSession(i) ==
    /\ asks[i].pc = "check"
    /\ ~AskInvalid(asks[i].request)
    /\ asks' = [asks EXCEPT
                  ![i].pc = IF SESSIONS[asks[i].request.session_id] = "absent"
                            THEN "init" ELSE "identify"]
    /\ UNCHANGED << SESSIONS, askServed, askHistory >>
    /\ UNCHANGED notAsk

\* SESSIONS[session_id] = {'last_product_name': None}; then the product
\* names are fetched and the identification prompt is sent to the LLM
AskInitSession(i) ==
    /\ asks[i].pc = "init"
    /\ SESSIONS' = [SESSIONS EXCEPT ![asks[i].request.session_id] = None]
    /\ asks' = [asks EXCEPT ![i].pc = "identify"]
    /\ UNCHANGED << askServed, askHistory >>
    /\ UNCHANGED notAsk

\* the LLM answers the identification prompt
AskIdentifies(i) ==
    /\ asks[i].pc = "identify"
    /\ \E text \in IdentifyTexts :
          asks' = [asks EXCEPT ![i].identified = Strip(text), ![i].pc = "resolve"]
    /\ UNCHANGED << SESSIONS, askServed, askHistory >>
    /\ UNCHANGED notAsk

\* the identification call raises
AskIdentifyFails(i) ==
    /\ asks[i].pc = "identify"
    /\ asks' = [asks EXCEPT
                  ![i].response =
                      Answer(<<"Sorry, I had trouble understanding your question.">>),
                  ![i].pc = "done"]
    /\ UNCHANGED << SESSIONS, askServed, askHistory >>
    /\ UNCHANGED notAsk

\* a product was named: it is the target and is remembered for the session;
\* SearchProducts is called with it
AskResolveNamed(i) ==
    LET sid == asks[i].request.session_id
        name == asks[i].identified
    IN  /\ asks[i].pc = "resolve"
        /\ name # "None"
        /\ SESSIONS' = [SESSIONS EXCEPT ![sid] = name]
        /\ askHistory' = [askHistory EXCEPT ![sid] = Append(@, name)]
        /\ asks' = [asks EXCEPT
                      ![i].target = name,
                      ![i].searchCalls = Append(@, name),
                      ![i].pc = "search"]
        /\ UNCHANGED askServed
        /\ UNCHANGED notAsk

\* "None" was answered and the session remembers a product: it is the
\* target; SearchProducts is called with it
AskResolveRemembered(i) ==
    LET sid == asks[i].request.session_id
    IN  /\ asks[i].pc = "resolve"
        /\ asks[i].identified = "None"
        /\ Truthy(SESSIONS[sid])
        /\ asks' = [asks EXCEPT
                      ![i].target = SESSIONS[sid],
                      ![i].searchCalls = Append(@, SESSIONS[sid]),
                      ![i].pc = "search"]
        /\ UNCHANGED << SESSIONS, askServed, askHistory >>
        /\ UNCHANGED notAsk

\* "None" was answered and the session remembers nothing
AskResolveUnknown(i) ==
    LET sid == asks[i].request.session_id
    IN  /\ asks[i].pc = "resolve"
        /\ asks[i].identified = "None"
        /\ ~Truthy(SESSIONS[sid])
        /\ asks' = [asks EXCEPT
                      ![i].response =
                          Answer(<<"I'm sorry, I'm not sure which product you're asking about. Could you be more specific?">>),
                      ![i].pc = "done"]
        /\ UNCHANGED << SESSIONS, askServed, askHistory >>
        /\ UNCHANGED notAsk

\* SearchProducts has results: the first is the context of the final prompt
AskSearchFinds(i) ==
    /\ asks[i].pc = "search"
    /\ \E name \in ProductNames :
          asks' = [asks EXCEPT
                     ![i].answerCalls =
                         Append(@, [question |-> asks[i].request.question,
                                    product  |-> name]),
                     ![i].pc = "answer"]
    /\ UNCHANGED << SESSIONS, askServed, askHistory >>
    /\ UNCHANGED notAsk

\* SearchProducts has no result
AskSearchEmpty(i) ==
    /\ asks[i].pc = "search"
    /\ asks' = [asks EXCEPT
                  ![i].response =
                      Answer(<<"Sorry, I couldn't find details for", asks[i].target>>),
                  ![i].pc = "done"]
    /\ UNCHANGED << SESSIONS, askServed, askHistory >>
    /\ UNCHANGED notAsk

\* SearchProducts raises grpc.RpcError
AskSearchFails(i) ==
    /\ asks[i].pc = "search"
    /\ asks' = [asks EXCEPT
                  ![i].response =
                      Answer(<<"Sorry, I was unable to retrieve product information.">>),
                  ![i].pc = "done"]
    /\ UNCHANGED << SESSIONS, askServed, askHistory >>
    /\ UNCHANGED notAsk

\* the LLM answers the final prompt
AskAnswers(i) ==
    /\ asks[i].pc = "answer"
    /\ asks' = [asks EXCEPT
                  ![i].response = Answer(<<"final_response.text">>),
                  ![i].pc = "done"]
    /\ UNCHANGED << SESSIONS, askServed, askHistory >>
    /\ UNCHANGED notAsk

\* the final call raises
AskAnswerFails(i) ==
    /\ asks[i].pc = "answer"
    /\ asks' = [asks EXCEPT
                  ![i].response =
                      Answer(<<"Sorry, I'm having trouble formulating a response.">>),
                  ![i].pc = "done"]
    /\ UNCHANGED << SESSIONS, askServed, askHistory >>
    /\ UNCHANGED notAsk

AskNext ==
    \/ \E i \in AskThreads : AskReceive(i)
    \/ \E i \in AskThreads : AskRejectInvalid(i)
    \/ \E i \in AskThreads : AskCheckSession(i)
    \/ \E i \in AskThreads : AskInitSession(i)
    \/ \E i \in AskThreads : AskIdentifies(i)
    \/ \E i \in AskThreads : AskIdentifyFails(i)
    \/ \E i \in AskThreads : AskResolveNamed(i)
    \/ \E i \in AskThreads : AskResolveRemembered(i)
    \/ \E i \in AskThreads : AskResolveUnknown(i)
    \/ \E i \in AskThreads : AskSearchFinds(i)
    \/ \E i \in AskThreads : AskSearchEmpty(i)
    \/ \E i \in AskThreads : AskSearchFails(i)
    \/ \E i \in AskThreads : AskAnswers(i)
    \/ \E i \in AskThreads : AskAnswerFails(i)

SpecAsk == AskInit /\ [][AskNext]_vars

---------------------------------------------------------------------------
(* The event collector of mcp/app.py: POST /mcp, one post after another.   *)
(* Posts come from the proxy (the events it publishes) and from any other  *)
(* client; the database is the environment.                                *)

\* json=event on the proxy's side and request.get_json() on the collector's:
\* a JSON object is a mapping from its keys, and the value under "data" is
\* kept with its JSON type
Serialize(event) ==
    [event EXCEPT !.data = [kind |-> "object", members |-> event.data]]

\* the requests for which the proxy publishes an event
PublishingRequests ==
    { r \in Requests :
        /\ r.method = "POST"
        /\ r.headers = [HOST |-> "shop.example"]
        /\ r.query = ""
        /\ Intercepts(r)
        /\ ~DecodeRaises(r.body)
        /\ Truthy(Event(r, r.body).data.product_id) }

\* the documents the proxy posts
ProxyEvents == { Serialize(McpCall(r, r.body).json) : r \in PublishingRequests }

\* documents other clients may post: {}, no "data", "data" without
\* product_id, "data": null, and a well-formed one
OtherPayloads ==
    { EmptyObject,
      [topic |-> "user-activity"],
      [topic |-> "user-activity",
       data  |-> [kind |-> "object", members |-> [user_id |-> "U1"]]],
      [topic |-> "user-activity", data |-> [kind |-> "null"]],
      [data |-> [kind |-> "object", members |-> [product_id |-> "9"]]] }

\* `'product_id' not in event_data['data']` raises TypeError when the value
\* under "data" is null
PayloadCheckRaises(p) ==
    /\ "data" \in DOMAIN p
    /\ p.data.kind = "null"

\* not event_data or 'data' not in event_data
\*     or 'product_id' not in event_data['data']
PayloadInvalid(p) ==
    IF DOMAIN p = {} THEN TRUE
    ELSE IF "data" \notin DOMAIN p THEN TRUE
    ELSE p.data.kind = "object" /\ "product_id" \notin DOMAIN p.data.members

\* jsonify({"status": ..., "message": ...}), code
McpAnswer(code, message) ==
    [kind |-> "response", status |-> code, message |-> message]

McpInit ==
    /\ ProxyIdle
    /\ ParIdle
    /\ RecIdle
    /\ AskIdle
    /\ AgentIdle
    /\ mcpPc = "idle"
    /\ mcpPayload = EmptyObject
    /\ mcpFrom = "none"
    /\ events = <<>>
    /\ mcpResponse = [kind |-> "none"]
    /\ mcpPosts = 0

\* an event published by the proxy reaches handle_mcp_event
McpReceiveEvent ==
    /\ mcpPc \in {"idle", "responded"}
    /\ mcpPosts < MaxPosts
    /\ mcpPayload' \in ProxyEvents
    /\ mcpFrom' = "proxy"
    /\ mcpResponse' = [kind |-> "none"]
    /\ mcpPosts' = mcpPosts + 1
    /\ mcpPc' = "check"
    /\ UNCHANGED events
    /\ UNCHANGED notMcp

\* a document posted by another client reaches handle_mcp_event
McpReceiveOther ==
    /\ mcpPc \in {"idle", "responded"}
    /\ mcpPosts < MaxPosts
    /\ mcpPayload' \in OtherPayloads
    /\ mcpFrom' = "other"
    /\ mcpResponse' = [kind |-> "none"]
    /\ mcpPosts' = mcpPosts + 1
    /\ mcpPc' = "check"
    /\ UNCHANGED events
    /\ UNCHANGED notMcp

\* the payload check fails: 400
McpRejectPayload ==
    /\ mcpPc = "check"
    /\ PayloadInvalid(mcpPayload)
    /\ mcpResponse' = McpAnswer(400, "Invalid payload")
    /\ mcpPc' = "responded"
    /\ UNCHANGED << mcpPayload, mcpFrom, events, mcpPosts >>
    /\ UNCHANGED notMcp

\* the payload check itself raises: the exception leaves the view and the
\* framework answers 500
McpCheckRaises ==
    /\ mcpPc = "check"
    /\ PayloadCheckRaises(mcpPayload)
    /\ mcpResponse' = McpAnswer(500, "Internal Server Error")
    /\ mcpPc' = "responded"
    /\ UNCHANGED << mcpPayload, mcpFrom, events, mcpPosts >>
    /\ UNCHANGED notMcp

\* get_db_connection returns None: 500
McpConnectFails ==
    /\ mcpPc = "check"
    /\ ~PayloadInvalid(mcpPayload)
    /\ ~PayloadCheckRaises(mcpPayload)
    /\ mcpResponse' = McpAnswer(500, "Database connection failed")
    /\ mcpPc' = "responded"
    /\ UNCHANGED << mcpPayload, mcpFrom, events, mcpPosts >>
    /\ UNCHANGED notMcp

\* the INSERT is executed and committed: 200
McpInsert ==
    /\ mcpPc = "check"
    /\ ~PayloadInvalid(mcpPayload)
    /\ ~PayloadCheckRaises(mcpPayload)
    /\ events' = Append(events,
                        [ product_id |-> mcpPayload.data.members.product_id,
                          event_type |-> "ADD_TO_CART" ])
    /\ mcpResponse' = McpAnswer(200, "Event logged")
    /\ mcpPc' = "responded"
    /\ UNCHANGED << mcpPayload, mcpFrom, mcpPosts >>
    /\ UNCHANGED notMcp

\* the INSERT or the commit raises: nothing is committed, 500
McpInsertFails ==
    /\ mcpPc = "check"
    /\ ~PayloadInvalid(mcpPayload)
    /\ ~PayloadCheckRaises(mcpPayload)
    /\ mcpResponse' = McpAnswer(500, "Internal server error")
    /\ mcpPc' = "responded"
    /\ UNCHANGED << mcpPayload, mcpFrom, events, mcpPosts >>
    /\ UNCHANGED notMcp

McpNext ==
    \/ McpReceiveEvent
    \/ McpReceiveOther
    \/ McpRejectPayload
    \/ McpCheckRaises
    \/ McpConnectFails
    \/ McpInsert
    \/ McpInsertFails

SpecMcp == McpInit /\ [][McpNext]_vars

---------------------------------------------------------------------------
(* The recommendation agent of recommendation-agent/agent.py: the gRPC     *)
(* ListRecommendations method, served by a thread pool, and the Flask      *)
(* thread's /latest_recommendation, which share last_recommendation_cache. *)
(* Every call runs in a thread of its own and the threads' steps           *)
(* interleave; the catalog, the marketing agent and the LLM are the        *)
(* environment.                                                            *)

AgentThreads == 1..NumAgentCalls

\* the cache before any successful call
Placeholder ==
    [ input_cart_names     |-> <<>>,
      output_product_names |-> <<"Agent has not run yet.">> ]

\* catalog_response.products
AgentCatalog ==
    << [id |-> <<"id", "Mug">>, name |-> "Mug"],
       [id |-> <<"id", "Tank Top">>, name |-> "Tank Top"] >>

\* request.product_ids
Carts ==
    { <<>>,
      << <<"id", "Mug">> >> }

\* [self.get_product_name_from_id(pid) for pid in cart_product_ids]: each
\* GetProduct either answers the product's name or fails, which gives
\* "Unknown Product"
EnrichedNames(cart) ==
    { names \in [1..Len(cart) -> ProductNames \cup {"Unknown Product"}] :
        \A k \in 1..Len(cart) : names[k] \in {cart[k][2], "Unknown Product"} }

\* what the recommendation prompt's response.text may hold
LlmListTexts == {"Mug, Tank Top", "Tank Top ", "Mug"}

\* [name.strip() for name in response.text.split(',')]
SplitStrip(text) ==
    CASE text = "Mug, Tank Top" -> <<"Mug", "Tank Top">>
      [] text = "Tank Top " -> <<"Tank Top">>
      [] OTHER -> <<text>>

\* [p.id for p in kept]
IdsOf(kept) == [ k \in 1..Len(kept) |-> kept[k].id ]

\* x in seq
InSeq(x, seq) == \E k \in 1..Len(seq) : seq[k] = x

\* demo_pb2.ListRecommendationsResponse(product_ids=...)
AgentResponse(ids) == [kind |-> "response", product_ids |-> ids]

\* a thread of the pool with no call; promoted_product is a local of the
\* running call, the other fields stay readable after it has returned
NoCall ==
    [ pc                 |-> "idle",
      product_ids        |-> <<>>,
      cart_product_names |-> <<>>,
      promoted_product   |-> "None",
      recommended_names  |-> <<>>,
      outcome            |-> "none",
      response           |-> [kind |-> "none"] ]

AgentInit ==
    /\ ProxyIdle
    /\ ParIdle
    /\ RecIdle
    /\ AskIdle
    /\ McpIdle
    /\ last_recommendation_cache = Placeholder
    /\ agentCalls = [i \in AgentThreads |-> NoCall]
    /\ latestReads = <<>>

\* a call enters ListRecommendations; the cart's names are fetched and the
\* marketing agent is asked
AgentReceive(i) ==
    /\ agentCalls[i].pc = "idle"
    /\ \E cart \in Carts :
          \E names \in EnrichedNames(cart) :
              agentCalls' = [agentCalls EXCEPT
                               ![i].product_ids = cart,
                               ![i].cart_product_names = names,
                               ![i].pc = "marketing"]
    /\ UNCHANGED << last_recommendation_cache, latestReads >>
    /\ UNCHANGED notAgent

\* requests.get answers; promoted_product is taken from an ok reply
AgentMarketingAnswers(i) ==
    /\ agentCalls[i].pc = "marketing"
    /\ \E promoted \in {"Mug", "None"} :
          agentCalls' = [agentCalls EXCEPT
                           ![i].promoted_product = promoted,
                           ![i].pc = "catalog"]
    /\ UNCHANGED << last_recommendation_cache, latestReads >>
    /\ UNCHANGED notAgent

\* requests.get raises RequestException: passed over
AgentMarketingFails(i) ==
    /\ agentCalls[i].pc = "marketing"
    /\ agentCalls' = [agentCalls EXCEPT ![i].pc = "catalog"]
    /\ UNCHANGED << last_recommendation_cache, latestReads >>
    /\ UNCHANGED notAgent

\* ListProducts answers; the prompt is built and the LLM is asked
AgentCatalogAnswers(i) ==
    /\ agentCalls[i].pc = "catalog"
    /\ agentCalls' = [agentCalls EXCEPT ![i].pc = "llm"]
    /\ UNCHANGED << last_recommendation_cache, latestReads >>
    /\ UNCHANGED notAgent

\* ListProducts raises grpc.RpcError: an empty response is returned
AgentCatalogFails(i) ==
    /\ agentCalls[i].pc = "catalog"
    /\ agentCalls' = [agentCalls EXCEPT
                        ![i].outcome = "catalog_error",
                        ![i].promoted_product = "None",
                        ![i].response = AgentResponse(<<>>),
                        ![i].pc = "done"]
    /\ UNCHANGED << last_recommendation_cache, latestReads >>
    /\ UNCHANGED notAgent

\* faulty variant: the cache dict is updated in place, one key at a time
AgentLlmAnswers_InPlace(i) ==
    /\ agentCalls[i].pc \in {"llm", "store"}
    /\ IF agentCalls[i].pc = "llm"
       THEN \E text \in LlmListTexts :
               /\ last_recommendation_cache' =
                     [last_recommendation_cache EXCEPT
                        !.input_cart_names = agentCalls[i].cart_product_names]
               /\ agentCalls' = [agentCalls EXCEPT
                                   ![i].recommended_names = SplitStrip(text),
                                   ![i].pc = "store"]
       ELSE /\ last_recommendation_cache' =
                  [last_recommendation_cache EXCEPT
                     !.output_product_names = agentCalls[i].recommended_names]
            /\ agentCalls' = [agentCalls EXCEPT
                                ![i].outcome = "ok",
                                ![i].promoted_product = "None",
                                ![i].response =
                                    AgentResponse(IdsOf(SelectSeq(AgentCatalog,
                                        LAMBDA p : InSeq(p.name, agentCalls[i].recommended_names)))),
                                ![i].pc = "done"]
    /\ UNCHANGED latestReads
    /\ UNCHANGED notAgent

\* generate_content answers: the names are parsed, the cache is rebound to a
\* new dict, and the ids of the named products are returned
AgentLlmAnswers(i) ==
    /\ agentCalls[i].pc = "llm"
    /\ \E text \in LlmListTexts :
          LET recommended_names == SplitStrip(text)
          IN  /\ last_recommendation_cache' =
                    [ input_cart_names     |-> agentCalls[i].cart_product_names,
                      output_product_names |-> recommended_names ]
              /\ agentCalls' = [agentCalls EXCEPT
                                  ![i].recommended_names = recommended_names,
                                  ![i].outcome = "ok",
                                  ![i].promoted_product = "None",
                                  ![i].response =
                                      AgentResponse(IdsOf(SelectSeq(AgentCatalog,
                                          LAMBDA p : InSeq(p.name, recommended_names)))),
                                  ![i].pc = "done"]
    /\ UNCHANGED latestReads
    /\ UNCHANGED notAgent

\* generate_content (or .text) raises: the first catalog products that are
\* not in the cart are returned
AgentLlmFails(i) ==
    /\ agentCalls[i].pc = "llm"
    /\ agentCalls' = [agentCalls EXCEPT
                        ![i].outcome = "llm_error",
                        ![i].promoted_product = "None",
                        ![i].response =
                            AgentResponse(IdsOf(SelectSeq(SubSeq(AgentCatalog, 1, 2),
                                LAMBDA p : ~InSeq(p.id, agentCalls[i].product_ids)))),
                        ![i].pc = "done"]
    /\ UNCHANGED << last_recommendation_cache, latestReads >>
    /\ UNCHANGED notAgent

\* GET /latest_recommendation: the cache is read and returned
LatestRecommendation ==
    /\ Len(latestReads) < MaxReads
    /\ latestReads' = Append(latestReads, last_recommendation_cache)
    /\ UNCHANGED << last_recommendation_cache, agentCalls >>
    /\ UNCHANGED notAgent

AgentNext ==
    \/ \E i \in AgentThreads : AgentReceive(i)
    \/ \E i \in AgentThreads : AgentMarketingAnswers(i)
    \/ \E i \in AgentThreads : AgentMarketingFails(i)
    \/ \E i \in AgentThreads : AgentCatalogAnswers(i)
    \/ \E i \in AgentThreads : AgentCatalogFails(i)
    \/ \E i \in AgentThreads : AgentLlmAnswers(i)
    \/ \E i \in AgentThreads : AgentLlmFails(i)
    \/ LatestRecommendation

SpecAgent == AgentInit /\ [][AgentNext]_vars

---------------------------------------------------------------------------
(* Vocabulary of the properties *)

Done == pc = "done"

\* the route dispatched the request to proxy_request
Accepted == request.method \in RouteMethods

PostCart == request.method = "POST" /\ request.path = <<"cart">>

\* the fields of body b written under key k
FieldsNamed(b, k) == SelectSeq(b.fields, LAMBDA f : f.k = k)

\* b is UTF-8 and its only field under key k is k=raw, raw not blank
SoleField(b, k, raw) ==
    /\ b.utf8
    /\ raw # ""
    /\ FieldsNamed(b, k) = << [k |-> k, eq |-> TRUE, v |-> raw] >>

\* b is UTF-8 form data with some non-blank product_id=...
CarriesProductId(b) ==
    /\ b.utf8
    /\ \E i \in 1..Len(b.fields) :
          b.fields[i].k = "product_id" /\ b.fields[i].eq /\ b.fields[i].v # ""

\* b is not UTF-8, or is text without a single key=value pair
Undecodable(b) ==
    \/ ~b.utf8
    \/ \A i \in 1..Len(b.fields) : ~b.fields[i].eq

\* the event-collector call failed: it raised, or was answered outside 2xx
CollectorFailed ==
    \/ mcpOutcome.kind = "error"
    \/ mcpOutcome.kind = "reply" /\ mcpOutcome.status \notin 200..299

UpstreamReplied == upstream.kind = "reply"

\* the caller got what the handler builds from the forward's reply
ReturnsForwardResult ==
    UpstreamReplied =>
        /\ ~escaped
        /\ response = Relay(upstream.reply)
        /\ response.status = upstream.reply.status

---------------------------------------------------------------------------
(* Properties *)

\* C1: every request the handler accepts ends with exactly one forward call
\* issued, whether the event was sent, skipped, undecodable or its call
\* failed; at no point has more than one forward been issued.
C1_ExactlyOneForward ==
    /\ Len(forwardCalls) <= 1
    /\ (Done /\ Accepted) => Len(forwardCalls) = 1

C1_Witness ==
    /\ Done
    /\ PostCart
    /\ mcpOutcome.kind = "error"
    /\ Len(forwardCalls) = 1

\* C2: whenever the forward returns an upstream reply, the caller's response
\* has exactly the upstream's status, the upstream's headers (none added,
\* dropped or changed; names compared without regard to case) and the
\* upstream's body bytes.
C2_VerbatimRelay ==
    (Done /\ UpstreamReplied) =>
        /\ response.status = upstream.reply.status
        /\ LowerNames(response.headers) = LowerNames(upstream.reply.headers)
        /\ response.body = upstream.reply.body

\* C3: every request that is not POST /cart ends with no event-collector
\* call and exactly one forward call.
C3_NonCartOnlyForwarded ==
    (Done /\ ~PostCart) =>
        /\ Len(mcpCalls) = 0
        /\ Len(forwardCalls) = 1

\* C4: POST /cart whose form carries product_id=P and quantity=Q, with
\* cookie session_id=U, ends with exactly one event-collector call, to
\* <collector-base>/mcp, carrying topic "user-activity", event
\* "item_added_to_cart" and data {U, P, Q}, and with the forward made with
\* the original body bytes.
C4_CartEvent ==
    \A p \in RawValues, q \in RawValues :
        ( /\ Done
          /\ PostCart
          /\ SoleField(request.body, "product_id", p)
          /\ SoleField(request.body, "quantity", q)
          /\ "session_id" \in DOMAIN request.cookies )
        =>
        /\ Len(mcpCalls) = 1
        /\ mcpCalls[1].url = [base |-> TOOLBOX_URL, path |-> <<"mcp">>]
        /\ mcpCalls[1].json =
              [ topic |-> "user-activity",
                event |-> "item_added_to_cart",
                data  |-> [ user_id    |-> request.cookies["session_id"],
                            product_id |-> Unquote(p),
                            quantity   |-> Unquote(q) ] ]
        /\ Len(forwardCalls) = 1
        /\ forwardCalls[1].data = request.body

C4_Witness ==
    /\ Done
    /\ PostCart
    /\ SoleField(request.body, "product_id", "a+b")
    /\ SoleField(request.body, "quantity", "2")
    /\ "session_id" \in DOMAIN request.cookies
    /\ Len(mcpCalls) = 1
    /\ mcpCalls[1].json.data.product_id = "a b"

\* C5: POST /cart with a product_id and no session_id cookie publishes
\* exactly one event, whose user_id is "unknown_user", and is forwarded once.
C5_UnknownUser ==
    ( /\ Done
      /\ PostCart
      /\ CarriesProductId(request.body)
      /\ "session_id" \notin DOMAIN request.cookies )
    =>
    /\ Len(mcpCalls) = 1
    /\ mcpCalls[1].json.data.user_id = "unknown_user"
    /\ Len(forwardCalls) = 1

C5_Witness ==
    /\ Done
    /\ PostCart
    /\ CarriesProductId(request.body)
    /\ "user_pref" \in DOMAIN request.cookies
    /\ "session_id" \notin DOMAIN request.cookies
    /\ Len(mcpCalls) = 1

\* C6: POST /cart whose form has no product_id key publishes nothing, is
\* still forwarded, and the caller gets the result of that forward.
C6_NoProductIdNoEvent ==
    ( /\ Done
      /\ PostCart
      /\ request.body.utf8
      /\ FieldsNamed(request.body, "product_id") = <<>> )
    =>
    /\ Len(mcpCalls) = 0
    /\ Len(forwardCalls) = 1
    /\ ReturnsForwardResult

C6_Witness ==
    /\ Done
    /\ PostCart
    /\ request.body.utf8
    /\ FieldsNamed(request.body, "product_id") = <<>>
    /\ Len(FieldsNamed(request.body, "quantity")) = 1
    /\ Len(FieldsNamed(request.body, "other")) = 1
    /\ UpstreamReplied
    /\ response.status = 200

\* C7: POST /cart with a body that is not UTF-8 or not form data publishes
\* nothing, lets no exception out of the interception (only a failed forward
\* can raise), is forwarded with the original bytes, and the caller gets
\* the result of that forward.
C7_UndecodableBody ==
    ( /\ PostCart
      /\ Undecodable(request.body) )
    =>
    /\ Len(mcpCalls) = 0
    /\ escaped => upstream.kind = "error"
    /\ Done =>
          /\ Len(forwardCalls) = 1
          /\ forwardCalls[1].data = request.body
          /\ ReturnsForwardResult

C7_Witness ==
    /\ Done
    /\ PostCart
    /\ ~request.body.utf8
    /\ Len(forwardCalls) = 1
    /\ UpstreamReplied
    /\ response.status = 200

\* C8: a failed event-collector call (exception, timeout, refusal, non-2xx
\* reply) is swallowed: no exception leaves the handler on its account, the
\* request is forwarded, and the caller gets the result of that forward.
C8_CollectorFailureSwallowed ==
    CollectorFailed =>
        /\ escaped => upstream.kind = "error"
        /\ pc \in {"forward", "forwarding", "done"}
        /\ Done =>
              /\ Len(forwardCalls) = 1
              /\ ReturnsForwardResult

C8_Witness ==
    /\ Done
    /\ mcpOutcome.kind = "error"
    /\ mcpOutcome.error = "Timeout"
    /\ UpstreamReplied
    /\ response.status = 200

\* C9: when the forward call itself fails, the caller receives a
\* bad-gateway class response (502, 503 or 504).
C9_BadGateway ==
    (Done /\ upstream.kind = "error") =>
        response.status \in {502, 503, 504}

\* C10: no request is answered by the proxy itself: whatever its method and
\* path, it is forwarded to the upstream origin.
C10_NoAllowList ==
    Done =>
        /\ response # MethodNotAllowed
        /\ Len(forwardCalls) = 1
        /\ forwardCalls[1].method = request.method
        /\ forwardCalls[1].url.path = request.path

\* the forward call issued for the request
Fwd == forwardCalls[1]

\* C11: the forwarded request carries every incoming header with its value,
\* except Host, which is absent from it however the client spelt the name.
C11_HeadersExceptHost ==
    Len(forwardCalls) >= 1 =>
        /\ \A k \in DOMAIN Fwd.headers : Lower(k) # "host"
        /\ \A n \in DOMAIN request.headers :
              Lower(n) # "host" =>
                  \E k \in DOMAIN Fwd.headers :
                      Lower(k) = Lower(n) /\ Fwd.headers[k] = request.headers[n]

C11_Witness ==
    /\ Len(forwardCalls) = 1
    /\ "HOST" \in DOMAIN request.headers
    /\ DOMAIN Fwd.headers = {}

\* C12: an upstream 3xx reply with a Location header reaches the caller with
\* that status and that Location, and the proxy issues no request of its own
\* to the location: the forward was made without following redirects and
\* stays the only one.
C12_RedirectPassThrough ==
    ( /\ Done
      /\ UpstreamReplied
      /\ upstream.reply.status \in 300..399
      /\ "Location" \in DOMAIN upstream.reply.headers )
    =>
    /\ response.status = upstream.reply.status
    /\ "location" \in DOMAIN response.headers
    /\ response.headers["location"] = upstream.reply.headers["Location"]
    /\ Len(forwardCalls) = 1
    /\ Fwd.allow_redirects = FALSE

C12_Witness ==
    /\ Done
    /\ UpstreamReplied
    /\ upstream.reply.status = 302
    /\ response.status = 302
    /\ Len(forwardCalls) = 1

\* C13: nothing is retried: at every moment of a request's handling at most
\* one event-collector call and at most one forward call have been issued,
\* also after either has failed.
C13_NoRetry ==
    /\ Len(mcpCalls) <= 1
    /\ Len(forwardCalls) <= 1
    /\ mcpOutcome.kind = "error" => (Len(mcpCalls) = 1 /\ pc # "publish")
    /\ upstream.kind = "error" => (Len(forwardCalls) = 1 /\ Done)

C13_Witness ==
    /\ Done
    /\ mcpOutcome.kind = "error"
    /\ upstream.kind = "error"
    /\ Len(mcpCalls) = 1
    /\ Len(forwardCalls) = 1

\* C14: only POST to exactly /cart is intercepted: any other method, and a
\* POST to any other path (also one that starts with /cart), publishes no
\* event.
C14_ExactCartRoute ==
    ~(request.method = "POST" /\ request.path = <<"cart">>) =>
        Len(mcpCalls) = 0

C14_Witness ==
    /\ Done
    /\ request.method = "POST"
    /\ request.path = <<"cart", "checkout">>
    /\ CarriesProductId(request.body)
    /\ Len(mcpCalls) = 0
    /\ Len(forwardCalls) = 1

\* C15: the forwarded request has the incoming request's method, its raw
\* body bytes, all its cookies, and as target the upstream base followed by
\* the original path.
C15_ForwardedRequest ==
    Len(forwardCalls) >= 1 =>
        /\ Fwd.method = request.method
        /\ Fwd.data = request.body
        /\ Fwd.cookies = request.cookies
        /\ Fwd.url = [base |-> "http://frontend-real:8080", path |-> request.path]

C15_Witness ==
    /\ Len(forwardCalls) = 1
    /\ request.method = "PUT"
    /\ request.path = <<"cart", "">>
    /\ DOMAIN request.cookies = {"session_id", "user_pref"}
    /\ Len(request.body.fields) = 2

\* C16: the handler reads the request body from the transport exactly once,
\* on every route and before it branches; the event and the forward both
\* use those cached bytes, and there is never a second read.
C16_BodyReadOnce ==
    /\ bodyReads <= 1
    /\ (Accepted /\ pc \notin {"route", "read"}) =>
          (bodyReads = 1 /\ body = request.body)
    /\ Len(mcpCalls) >= 1 => mcpCalls[1].json = Event(request, body)
    /\ Len(forwardCalls) >= 1 => Fwd.data = body

C16_Witness ==
    /\ Done
    /\ PostCart
    /\ Len(mcpCalls) = 1
    /\ Len(forwardCalls) = 1
    /\ bodyReads = 1

\* C17: handlers share nothing: under every interleaving of several
\* requests, a handler's forwarded request and its event (user_id,
\* product_id, quantity) are made of its own request alone, and its response
\* of its own upstream reply alone.
C17_NoSharedState ==
    \A i \in Handlers :
        LET h == hs[i]
            f == h.request.body.fields
        IN  /\ Len(h.forwardCalls) <= 1
            /\ Len(h.mcpCalls) <= 1
            /\ Len(h.forwardCalls) = 1 =>
                  /\ h.forwardCalls[1].method = h.request.method
                  /\ h.forwardCalls[1].url.path = h.request.path
                  /\ h.forwardCalls[1].data = h.request.body
                  /\ h.forwardCalls[1].cookies = h.request.cookies
            /\ Len(h.mcpCalls) = 1 =>
                  LET d == h.mcpCalls[1].json.data
                  IN  /\ d.user_id =
                            IF "session_id" \in DOMAIN h.request.cookies
                            THEN h.request.cookies["session_id"]
                            ELSE "unknown_user"
                      /\ \E n \in 1..Len(f) :
                            f[n].k = "product_id" /\ Unquote(f[n].v) = d.product_id
                      /\ \/ \E n \in 1..Len(f) :
                                f[n].k = "quantity" /\ Unquote(f[n].v) = d.quantity
                         \/ /\ d.quantity = None
                            /\ \A n \in 1..Len(f) : f[n].k # "quantity"
            /\ h.upstream.kind = "reply" => h.response = Relay(h.upstream.reply)
            /\ h.upstream.kind = "error" => h.response = InternalServerError

C17_Witness ==
    /\ hs[1].pc = "done"
    /\ hs[2].pc = "forwarding"
    /\ Len(hs[1].mcpCalls) = 1
    /\ Len(hs[2].mcpCalls) = 1
    /\ hs[1].mcpCalls[1].json.data.user_id = "U1"
    /\ hs[2].mcpCalls[1].json.data.user_id = "U2"
    /\ hs[1].response.status = 302
    /\ hs[2].forwardCalls[1].data # hs[1].forwardCalls[1].data

\* a /recommend request has been answered
RecAnswered == recPc = "idle" /\ recServed > 0

\* C18: POST /recommend with an empty viewed_products list is answered 400
\* "Viewed products list cannot be empty." with no LLM call and no catalog
\* call, also when the product-name list is empty.
C18_EmptyViewedRejected ==
    (recPc \in {"llm", "catalog", "idle"} /\ recServed > 0
        /\ recRequest.viewed_products = <<>>)
    =>
    /\ recPc = "idle"
    /\ recResponse = [ kind   |-> "response",
                       status |-> 400,
                       detail |-> "Viewed products list cannot be empty." ]
    /\ llmCalls = <<>>
    /\ searchCalls = <<>>

C18_Witness ==
    /\ RecAnswered
    /\ recRequest.viewed_products = <<>>
    /\ VALID_PRODUCT_NAMES = <<>>
    /\ recResponse.status = 400

\* C19: POST /recommend with a non-empty viewed_products list while the
\* product-name list is empty is answered 503 "Product catalog not
\* available..." and the LLM is not called.
C19_NoCatalogRejected ==
    (recPc \in {"llm", "catalog", "idle"} /\ recServed > 0
        /\ recRequest.viewed_products # <<>>
        /\ VALID_PRODUCT_NAMES = <<>>)
    =>
    /\ recPc = "idle"
    /\ recResponse = [ kind   |-> "response",
                       status |-> 503,
                       detail |-> "Product catalog not available. Please try again later." ]
    /\ llmCalls = <<>>
    /\ searchCalls = <<>>

C19_Witness ==
    /\ RecAnswered
    /\ Len(recRequest.viewed_products) = 2
    /\ VALID_PRODUCT_NAMES = <<>>
    /\ recResponse.status = 503

\* C20: when the LLM named a product and the catalog lookup returned None,
\* POST /recommend is answered 404.
C20_NotFoundIs404 ==
    (RecAnswered /\ Len(searchCalls) = 1 /\ productDetails = NoProduct) =>
        recResponse.status = 404

\* C21: when the LLM call of a POST /recommend raises, the request is
\* answered 500 "Failed to get recommendation." and no catalog lookup is
\* made for it, neither before the answer nor after.
C21_LlmErrorIs500 ==
    llmOutcome = "raised" =>
        /\ recPc = "idle"
        /\ recResponse = [ kind   |-> "response",
                           status |-> 500,
                           detail |-> "Failed to get recommendation." ]
        /\ searchCalls = <<>>
        /\ productDetails = NoProduct

C21_Witness ==
    /\ RecAnswered
    /\ llmOutcome = "raised"
    /\ Len(llmCalls) = 1
    /\ Len(VALID_PRODUCT_NAMES) = 2
    /\ recResponse.status = 500

\* C22: the startup sync never lets an exception out; when its catalog call
\* fails the product-name list stays as it was, empty; when the call
\* answers, the list is exactly the names of the returned products, in the
\* returned order.
C22_SyncNeverRaises ==
    /\ recPc # "crashed"
    /\ syncResult.kind = "raised" => VALID_PRODUCT_NAMES = <<>>
    /\ syncResult.kind = "answered" =>
          /\ Len(VALID_PRODUCT_NAMES) = Len(syncResult.products)
          /\ \A i \in 1..Len(syncResult.products) :
                VALID_PRODUCT_NAMES[i] = syncResult.products[i].name

C22_Witness ==
    /\ recPc = "idle"
    /\ syncResult.kind = "answered"
    /\ Len(syncResult.products) = 2
    /\ syncResult.products[1].name = "Tank Top"
    /\ syncResult.products[2].name = "Mug"
    /\ VALID_PRODUCT_NAMES = <<"Tank Top", "Mug">>

\* C23: a request for path P with query string Q is forwarded to the
\* upstream with path P and the same query string Q.
C23_QueryPreserved ==
    Len(forwardCalls) >= 1 =>
        Fwd.url = IF request.query = ""
                  THEN [ base |-> REAL_FRONTEND_URL, path |-> request.path ]
                  ELSE [ base  |-> REAL_FRONTEND_URL,
                         path  |-> request.path,
                         query |-> request.query ]

\* the event published for the request
Sent == mcpCalls[1].json.data

\* C24 as stated: POST /cart with a product_id and no quantity key publishes
\* exactly one event, whose quantity is null; and when product_id or
\* quantity is written several times, the event carries the first value
\* written.
C24_FirstValueUsed ==
    (Done /\ PostCart /\ request.body.utf8) =>
        /\ ( /\ CarriesProductId(request.body)
              /\ FieldsNamed(request.body, "quantity") = <<>> )
           => (Len(mcpCalls) = 1 /\ Sent.quantity = None)
        /\ \A k \in {"product_id", "quantity"} :
              (Len(mcpCalls) = 1 /\ Len(Written(request.body, k)) >= 2)
              => Sent[k] = Unquote(Written(request.body, k)[1].v)

\* C24 as amended: POST /cart with a product_id and no quantity key publishes
\* exactly one event, whose quantity is null; and when product_id or
\* quantity is written several times, the event carries the first value
\* that is not empty, or null when all of them are empty.
C24_FirstNonEmptyValueUsed ==
    (Done /\ PostCart /\ request.body.utf8) =>
        /\ ( /\ CarriesProductId(request.body)
              /\ FieldsNamed(request.body, "quantity") = <<>> )
           => (Len(mcpCalls) = 1 /\ Sent.quantity = None)
        /\ \A k \in {"product_id", "quantity"} :
              (Len(mcpCalls) = 1 /\ Len(Written(request.body, k)) >= 2)
              => Sent[k] = IF Valued(request.body, k) = <<>>
                           THEN None
                           ELSE Unquote(Valued(request.body, k)[1].v)

C24_Witness ==
    /\ Done
    /\ PostCart
    /\ Len(request.body.fields) = 3
    /\ Len(Valued(request.body, "product_id")) = 1
    /\ Len(Valued(request.body, "quantity")) = 2
    /\ request.body.fields[1].v = "a+b"
    /\ request.body.fields[3].v = "1"
    /\ Len(mcpCalls) = 1
    /\ Sent.quantity = "a b"

\* the answer given when no product is known for the session
NotSure ==
    [ kind   |-> "response",
      answer |-> <<"I'm sorry, I'm not sure which product you're asking about. Could you be more specific?">> ]

\* thread i decides in this step which product its /ask is about
Resolves(i) == asks[i].pc = "resolve" /\ asks'[i].pc # "resolve"

\* C25: when the identification of an /ask answers "None", the product used
\* is the one most recently identified by an earlier /ask of the same
\* session_id (one whose identification was made before this request
\* arrived; requests during which another identification for the session is
\* made are left open), and when there is none, the 'not sure which product'
\* answer is given with no catalog search and no answer-generating LLM call;
\* the product used for a request is always one identified under its own
\* session_id; a request without question or session_id leaves the session
\* map as it is.
C25_SessionMemory ==
    /\ [][ \A i \in AskThreads :
            LET sid == asks[i].request.session_id
            IN  /\ (Resolves(i) /\ asks[i].identified = "None"
                        /\ Len(askHistory[sid]) = asks[i].seen) =>
                      IF askHistory[sid] # <<>>
                      THEN /\ asks'[i].target = askHistory[sid][Len(askHistory[sid])]
                           /\ asks'[i].searchCalls = << asks'[i].target >>
                      ELSE /\ asks'[i].response = NotSure
                           /\ asks'[i].pc = "done"
                           /\ asks'[i].searchCalls = <<>>
                           /\ asks'[i].answerCalls = <<>>
                /\ (asks[i].pc = "check" /\ AskInvalid(asks[i].request)
                        /\ asks'[i].pc # "check")
                   => SESSIONS' = SESSIONS ]_vars
    /\ [](\A i \in AskThreads :
            LET sid == asks[i].request.session_id
            IN  /\ asks[i].target # None =>
                      \E n \in 1..Len(askHistory[sid]) :
                          askHistory[sid][n] = asks[i].target
                /\ asks[i].response = NotSure =>
                      (asks[i].searchCalls = <<>> /\ asks[i].answerCalls = <<>>))

\* C26: the event and the forward are strictly sequential: while the
\* event-collector call of a request is outstanding (issued, neither
\* returned nor failed nor timed out) no forward call has been issued, so
\* the forward is never made before it or concurrently with it.
C26_EventThenForward ==
    /\ (mcpCalls # <<>> /\ mcpOutcome = NotCalled) => forwardCalls = <<>>
    /\ pc = "publish" => forwardCalls = <<>>
    /\ (mcpCalls # <<>> /\ forwardCalls # <<>>) => mcpOutcome.kind \in {"reply", "error"}

C26_Witness ==
    /\ pc = "forwarding"
    /\ Len(mcpCalls) = 1
    /\ mcpOutcome.kind = "reply"
    /\ mcpOutcome.status = 500
    /\ Len(forwardCalls) = 1
    /\ upstream = NotCalled

\* C27: POST /cart whose form writes product_id only with an empty value
\* (product_id=, product_id=&quantity=2) publishes no event and is still
\* forwarded.
C27_BlankProductId ==
    ( /\ PostCart
      /\ request.body.utf8
      /\ Written(request.body, "product_id") # <<>>
      /\ Valued(request.body, "product_id") = <<>> )
    =>
    /\ Len(mcpCalls) = 0
    /\ Done => Len(forwardCalls) = 1

C27_Witness ==
    /\ Done
    /\ PostCart
    /\ request.body.utf8
    /\ request.body.fields =
          << [k |-> "product_id", eq |-> TRUE, v |-> ""],
             [k |-> "quantity", eq |-> TRUE, v |-> "2"] >>
    /\ Len(mcpCalls) = 0
    /\ Len(forwardCalls) = 1
    /\ UpstreamReplied

\* the startup sync raised, or its catalog call returned no products
SyncGaveNothing ==
    \/ syncResult.kind = "raised"
    \/ syncResult.kind = "answered" /\ syncResult.products = <<>>

\* C28: the product-name list is written by the startup sync alone: no step
\* after startup changes it or syncs again; when the sync failed or returned
\* no products the list is empty from then on and every POST /recommend with
\* a non-empty viewed_products is answered 503.
C28_OnlyStartupSync ==
    /\ [][ recPc # "startup" =>
             /\ VALID_PRODUCT_NAMES' = VALID_PRODUCT_NAMES
             /\ syncResult' = syncResult ]_vars
    /\ [](SyncGaveNothing =>
             /\ VALID_PRODUCT_NAMES = <<>>
             /\ (RecAnswered /\ recRequest.viewed_products # <<>>) =>
                   /\ recResponse.status = 503
                   /\ llmCalls = <<>>)

C28_Witness ==
    /\ RecAnswered
    /\ recServed = 2
    /\ syncResult.kind = "raised"
    /\ recRequest.viewed_products # <<>>
    /\ recResponse.status = 503

\* the collector answers the post it was checking
McpResponds == mcpPc = "check" /\ mcpPc' = "responded"

\* the database could be reached and written for the post just answered
DatabaseServed ==
    mcpResponse'.message \notin {"Database connection failed", "Internal server error"}

\* the posted document has no data, or no product_id in its data
LacksProductId(p) ==
    IF "data" \notin DOMAIN p THEN TRUE
    ELSE IF p.data.kind # "object" THEN TRUE
    ELSE "product_id" \notin DOMAIN p.data.members

\* C29: an event published by the proxy is never answered 400 by the
\* collector, and when the database serves it exactly one row is added,
\* ('ADD_TO_CART', the event's product_id), with answer 200; a posted document
\* without data or without data.product_id is answered 400 and adds no row.
C29_CollectorAcceptsEvents ==
    [][ McpResponds =>
          /\ mcpFrom = "proxy" =>
                /\ mcpResponse'.status # 400
                /\ DatabaseServed =>
                      /\ mcpResponse'.status = 200
                      /\ events' = Append(events,
                                          [ product_id |-> mcpPayload.data.members.product_id,
                                            event_type |-> "ADD_TO_CART" ])
          /\ LacksProductId(mcpPayload) =>
                /\ mcpResponse'.status = 400
                /\ events' = events ]_vars

\* what a successful call i stores: its cart names and its recommended names
StoredBy(i) ==
    [ input_cart_names     |-> agentCalls[i].cart_product_names,
      output_product_names |-> agentCalls[i].recommended_names ]

\* C30: the shared cache is replaced as a whole and only by a call whose LLM
\* generation succeeded: under every interleaving of ListRecommendations
\* calls and /latest_recommendation reads, each value read is the initial
\* placeholder or the cart names and recommended names of one and the same
\* successful call; a call that fails (catalog error, LLM error) leaves the
\* cache unchanged.
C30_CacheSwappedWhole ==
    /\ [](\A k \in 1..Len(latestReads) :
            \/ latestReads[k] = Placeholder
            \/ \E i \in AgentThreads :
                  agentCalls[i].outcome = "ok" /\ latestReads[k] = StoredBy(i))
    /\ [][ /\ last_recommendation_cache' # last_recommendation_cache =>
                \E i \in AgentThreads :
                    /\ agentCalls[i].pc = "llm"
                    /\ agentCalls'[i].outcome = "ok"
                    /\ last_recommendation_cache' =
                          [ input_cart_names     |-> agentCalls'[i].cart_product_names,
                            output_product_names |-> agentCalls'[i].recommended_names ]
           /\ \A i \in AgentThreads :
                (agentCalls[i].outcome = "none"
                    /\ agentCalls'[i].outcome \in {"catalog_error", "llm_error"})
                => last_recommendation_cache' = last_recommendation_cache ]_vars

C30_Witness ==
    /\ Len(latestReads) = 2
    /\ agentCalls[1].outcome = "ok"
    /\ agentCalls[2].outcome = "ok"
    /\ latestReads[1] = StoredBy(1)
    /\ latestReads[2] = StoredBy(2)
    /\ latestReads[1].input_cart_names # latestReads[2].input_cart_names
    /\ latestReads[1].output_product_names # latestReads[2].output_product_names

====
